---- MODULE Spec2Model ----
(***************************************************************************)
(* Model of the Onyx search client's streaming answer assembly             *)
(* (src/onyx_search_client.py) and of the document-search / admin-search   *)
(* handlers (src/backend/onyx/server/query_and_chat/query_backend.py).     *)
(***************************************************************************)
EXTENDS Integers, Sequences, FiniteSets, TLC

\* Longest feed (number of lines of the streamed response) that is explored.
MaxFeed == 4
\* Longest ranked document list handed to document-search / admin-search.
MaxDocs == 4

\* Python's None, as a string so that it compares with str values.
None == "<None>"
\* Marks a key that a dict does not carry.
NoKey == "<no key>"

(***************************************************************************)
(* Python values                                                           *)
(***************************************************************************)

\* dict.get(key, default) on a JSON object whose present keys are d.keys.
Get(d, k, default) == IF k \in d.keys THEN d[k] ELSE default

\* Truthiness of an optional str: None and '' are falsy.
Truthy(v) == v # None /\ v # ""

\* An insertion-ordered dict is a sequence of [key, val] without repeated keys.
DictHas(d, k) == \E i \in DOMAIN d : d[i].key = k

DictIdx(d, k) == CHOOSE i \in DOMAIN d : d[i].key = k

DictGet(d, k) == d[DictIdx(d, k)].val

DictKeys(d) == {d[i].key : i \in DOMAIN d}

\* d[k] = v: an existing key keeps its position, a new key goes last.
DictSet(d, k, v) ==
    IF DictHas(d, k)
    THEN [d EXCEPT ![DictIdx(d, k)].val = v]
    ELSE Append(d, [key |-> k, val |-> v])

(***************************************************************************)
(* The feed: lines of the streamed response                                *)
(***************************************************************************)

DocKeys == {"id", "semantic_identifier", "link", "source", "blurb"}

D1 == [keys |-> DocKeys, id |-> "d1", document_id |-> "",
       semantic_identifier |-> "T1", link |-> "L1", source |-> "web", blurb |-> "b1"]

\* The same document id as D1, repeated later with other display fields.
D1b == [keys |-> DocKeys, id |-> "d1", document_id |-> "",
        semantic_identifier |-> "T1b", link |-> "L1b", source |-> "file", blurb |-> "b1b"]

D2 == [keys |-> DocKeys, id |-> "d2", document_id |-> "",
       semantic_identifier |-> "T2", link |-> "L2", source |-> "web", blurb |-> "b2"]

\* A document that carries its identity in document_id only.
D3 == [keys |-> {"document_id", "semantic_identifier", "link"}, id |-> "", document_id |-> "d3",
       semantic_identifier |-> "T3", link |-> "L3", source |-> "", blurb |-> ""]

DocIds == {"d1", "d2", "d3"}

\* A parsed packet: the keys the JSON object carries and their values.
Packet(keys, piece, docs, cits, err) ==
    [kind |-> "packet", keys |-> keys, answer_piece |-> piece,
     top_documents |-> docs, citations |-> cits, error |-> err]

EmptyUnit == [kind |-> "empty", keys |-> {}, answer_piece |-> <<>>,
              top_documents |-> <<>>, citations |-> <<>>, error |-> ""]

BadJsonUnit == [kind |-> "badjson", keys |-> {}, answer_piece |-> <<>>,
                top_documents |-> <<>>, citations |-> <<>>, error |-> ""]

\* A line that is valid JSON but no object: a number or null.
ScalarUnit == [kind |-> "scalar", keys |-> {}, answer_piece |-> <<>>,
               top_documents |-> <<>>, citations |-> <<>>, error |-> ""]

\* A line whose bytes are not UTF-8.
BadUtf8Unit == [kind |-> "badutf8", keys |-> {}, answer_piece |-> <<>>,
                top_documents |-> <<>>, citations |-> <<>>, error |-> ""]

\* Answer texts are sequences of characters, so that += is concatenation.
Units ==
    { EmptyUnit, BadJsonUnit, ScalarUnit, BadUtf8Unit,
      Packet({"answer_piece"}, <<"a">>, <<>>, <<>>, ""),
      Packet({"answer_piece"}, <<>>, <<>>, <<>>, ""),
      Packet({"answer_piece", "error"}, <<"b">>, <<>>, <<>>, "late"),
      Packet({"top_documents"}, <<>>, <<D1, D2>>, <<>>, ""),
      Packet({"top_documents"}, <<>>, <<D1b, D3>>, <<>>, ""),
      Packet({"top_documents", "citations", "error"}, <<>>, <<D2>>, << <<"d2", "cx">> >>, "x"),
      Packet({"citations"}, <<>>, <<>>, << <<"d1", "c1">> >>, ""),
      Packet({"citations"}, <<>>, <<>>, << <<"d2", "c2">>, <<"d1", "c3">>, <<"d3">> >>, ""),
      Packet({"error"}, <<>>, <<>>, <<>>, "boom"),
      Packet({"error"}, <<>>, <<>>, <<>>, "bang"),
      Packet({}, <<>>, <<>>, <<>>, "") }

VARIABLES
    feed,                 \* the lines response.iter_lines() has produced so far
    call,                 \* the client method called: "none" before the call
    pc,                   \* the call: "start", "send_message", "reading", "returned", "raised", "cancelled"
    raised,               \* the exception that left the call, and what caused it
    response_text,        \* search: response.text, None while there is no response
    gen_answer,           \* process_streaming_response: answer
    gen_documents,        \* process_streaming_response: documents
    gen_citations,        \* process_streaming_response: citations (the registry)
    referenced_doc_ids,   \* process_streaming_response: referenced_doc_ids
    events,               \* the events the generator has yielded (a citations event: the registry as yielded)
    answer,               \* search_with_answer: answer
    documents,            \* search_with_answer: documents
    citations_bound,      \* search_with_answer: citations is the generator's dict object
    citation_details,     \* search_with_answer: citation_details
    error,                \* search_with_answer: error
    op,                   \* the backend call: "idle", then how it ended
    top_docs,             \* the ranked documents before deduplication
    dedupe_docs,          \* retrieval_options.dedupe_docs
    relevance_sections,   \* search_pipeline.section_relevance: the relevant (document, chunk) keys
    deduped_docs,         \* handle_search_request: deduped_docs (top_documents of the response)
    dropped_inds,         \* handle_search_request: dropped_inds
    llm_indices,          \* handle_search_request: llm_indices of the response
    deduplicated_documents, \* admin_search: documents of the response
    map_call,             \* arguments of a direct index-mapping call
    map_result,           \* its outcome
    document_index,       \* admin_search: the configured index, "vespa" or "other"
    admin_retrieval_called, \* admin_search: document_index.admin_retrieval was invoked
    frames,               \* concurrent calls: per call, the generator's locals and what it has yielded
    client_of             \* concurrent calls: the client object each call was made on

feedVars == <<feed, call, pc, raised, response_text, gen_answer, gen_documents, gen_citations, referenced_doc_ids,
              events, answer, documents, citations_bound, citation_details, error>>

searchVars == <<op, top_docs, dedupe_docs, relevance_sections, deduped_docs, dropped_inds,
                llm_indices, deduplicated_documents, map_call, map_result,
                document_index, admin_retrieval_called>>

concurrentVars == <<frames, client_of>>

vars == <<feedVars, searchVars, concurrentVars>>

\* search_with_answer's citations: {} until the first "citations" event, then the
\* very dict object the generator keeps mutating.
citations == IF citations_bound THEN gen_citations ELSE <<>>

(***************************************************************************)
(* process_streaming_response                                              *)
(***************************************************************************)

NewEntry(doc) ==
    [title |-> Get(doc, "semantic_identifier", ""),
     link |-> Get(doc, "link", ""),
     source |-> Get(doc, "source", ""),
     blurb |-> Get(doc, "blurb", ""),
     citation_text |-> NoKey]

\* for doc in documents: doc_id = doc.get('id'); if doc_id: citations[doc_id] = {...}
RECURSIVE RegisterDocuments(_, _)
RegisterDocuments(cits, docs) ==
    IF docs = <<>> THEN cits
    ELSE LET doc == Head(docs)
             doc_id == Get(doc, "id", None)
         IN RegisterDocuments(
                IF Truthy(doc_id) THEN DictSet(cits, doc_id, NewEntry(doc)) ELSE cits,
                Tail(docs))

\* The citation loop as one that registers a cited id it has not seen in a batch.
RECURSIVE ApplyCitations_CreatesEntry(_, _, _)
ApplyCitations_CreatesEntry(cits, refs, pairs) ==
    IF pairs = <<>> THEN [citations |-> cits, referenced |-> refs]
    ELSE LET citation == Head(pairs)
         IN IF Len(citation) = 2
            THEN LET doc_id == citation[1]
                     citation_text == citation[2]
                 IN ApplyCitations_CreatesEntry(
                        IF DictHas(cits, doc_id)
                        THEN DictSet(cits, doc_id,
                                 [DictGet(cits, doc_id) EXCEPT !.citation_text = citation_text])
                        ELSE DictSet(cits, doc_id,
                                 [title |-> "", link |-> "", source |-> "", blurb |-> "",
                                  citation_text |-> citation_text]),
                        refs \cup {doc_id},
                        Tail(pairs))
            ELSE ApplyCitations_CreatesEntry(cits, refs, Tail(pairs))

\* for citation in packet["citations"]: ... on the pair (citations, referenced_doc_ids)
RECURSIVE ApplyCitations(_, _, _)
ApplyCitations(cits, refs, pairs) ==
    IF pairs = <<>> THEN [citations |-> cits, referenced |-> refs]
    ELSE LET citation == Head(pairs)
         IN IF Len(citation) = 2
            THEN LET doc_id == citation[1]
                     citation_text == citation[2]
                 IN ApplyCitations(
                        IF DictHas(cits, doc_id)
                        THEN DictSet(cits, doc_id,
                                 [DictGet(cits, doc_id) EXCEPT !.citation_text = citation_text])
                        ELSE cits,
                        refs \cup {doc_id},
                        Tail(pairs))
            ELSE ApplyCitations(cits, refs, Tail(pairs))

\* The list comprehension over citations.values() in search_with_answer.
CitationDetails(cits) ==
    [i \in DOMAIN cits |->
        [title |-> cits[i].val.title,
         link |-> cits[i].val.link,
         source |-> cits[i].val.source,
         blurb |-> cits[i].val.blurb,
         citation_text |-> IF cits[i].val.citation_text = NoKey THEN ""
                           ELSE cits[i].val.citation_text]]

Reading == pc = "reading" /\ Len(feed) < MaxFeed

NoException == [type |-> None, cause |-> None]

\* search_with_answer: requests.post to /chat/create-chat-session, before the try.
CreateSession ==
    /\ pc = "start"
    /\ call' = "search_with_answer"
    /\ pc' = "send_message"
    /\ UNCHANGED <<feed, raised, gen_answer, gen_documents, gen_citations, referenced_doc_ids,
                   events, answer, documents, citations_bound, citation_details, error>>
    /\ UNCHANGED response_text
    /\ UNCHANGED searchVars
    /\ UNCHANGED concurrentVars

\* The same request failing at the transport level: nothing catches it.
CreateSessionFails ==
    /\ pc = "start"
    /\ call' = "search_with_answer"
    /\ pc' = "raised"
    /\ raised' = [type |-> "ConnectionError", cause |-> "transport"]
    /\ UNCHANGED <<feed, gen_answer, gen_documents, gen_citations, referenced_doc_ids,
                   events, answer, documents, citations_bound, citation_details, error>>
    /\ UNCHANGED response_text
    /\ UNCHANGED searchVars
    /\ UNCHANGED concurrentVars

\* search_with_answer: requests.post to /chat/send-message and raise_for_status.
SendMessage ==
    /\ pc = "send_message"
    /\ pc' = "reading"
    /\ UNCHANGED <<feed, call, raised, gen_answer, gen_documents, gen_citations,
                   referenced_doc_ids, events, answer, documents, citations_bound,
                   citation_details, error>>
    /\ UNCHANGED response_text
    /\ UNCHANGED searchVars
    /\ UNCHANGED concurrentVars

\* The same request failing: except RequestException -> OnyxSearchException.
SendMessageFails ==
    /\ pc = "send_message"
    /\ pc' = "raised"
    /\ raised' = [type |-> "OnyxSearchException", cause |-> "transport"]
    /\ UNCHANGED <<feed, call, gen_answer, gen_documents, gen_citations,
                   referenced_doc_ids, events, answer, documents, citations_bound,
                   citation_details, error>>
    /\ UNCHANGED response_text
    /\ UNCHANGED searchVars
    /\ UNCHANGED concurrentVars

\* iter_lines() fails while search_with_answer drains the generator inside its try.
ReadFails ==
    /\ pc = "reading"
    /\ pc' = "raised"
    /\ raised' = [type |-> "OnyxSearchException", cause |-> "transport"]
    /\ UNCHANGED <<feed, call, gen_answer, gen_documents, gen_citations,
                   referenced_doc_ids, events, answer, documents, citations_bound,
                   citation_details, error>>
    /\ UNCHANGED response_text
    /\ UNCHANGED searchVars
    /\ UNCHANGED concurrentVars

\* json.loads gives a number or None: "answer_piece" in packet raises TypeError,
\* which neither the generator nor search_with_answer catches.
NonObjectLine(u) ==
    /\ Reading
    /\ u.kind = "scalar"
    /\ feed' = Append(feed, u)
    /\ pc' = "raised"
    /\ raised' = [type |-> "TypeError", cause |-> "malformed"]
    /\ UNCHANGED <<call, gen_answer, gen_documents, gen_citations, referenced_doc_ids,
                   events, answer, documents, citations_bound, citation_details, error>>
    /\ UNCHANGED response_text
    /\ UNCHANGED searchVars
    /\ UNCHANGED concurrentVars

\* line.decode('utf-8') raises UnicodeDecodeError, which is no JSONDecodeError.
UndecodableLine(u) ==
    /\ Reading
    /\ u.kind = "badutf8"
    /\ feed' = Append(feed, u)
    /\ pc' = "raised"
    /\ raised' = [type |-> "UnicodeDecodeError", cause |-> "malformed"]
    /\ UNCHANGED <<call, gen_answer, gen_documents, gen_citations, referenced_doc_ids,
                   events, answer, documents, citations_bound, citation_details, error>>
    /\ UNCHANGED response_text
    /\ UNCHANGED searchVars
    /\ UNCHANGED concurrentVars

\* The bodies a successful document search answers with: no documents, or some.
SearchBodies == {"{\"top_documents\": [], \"llm_indices\": []}",
                 "{\"top_documents\": [{\"document_id\": \"A\"}], \"llm_indices\": [0]}"}

\* search: the POST to /query/document-search succeeds with a body.
DocumentSearchReturns ==
    /\ pc = "start"
    /\ call' = "search"
    /\ pc' = "returned"
    /\ response_text' \in SearchBodies
    /\ UNCHANGED <<feed, raised, gen_answer, gen_documents, gen_citations, referenced_doc_ids,
                   events, answer, documents, citations_bound, citation_details, error>>
    /\ UNCHANGED searchVars
    /\ UNCHANGED concurrentVars

\* search without the test of response.text: the empty body is handed on as a
\* result without documents.
DocumentSearchEmptyBody_ReturnsNothing ==
    /\ pc = "start"
    /\ call' = "search"
    /\ pc' = "returned"
    /\ response_text' = ""
    /\ UNCHANGED <<feed, raised, gen_answer, gen_documents, gen_citations, referenced_doc_ids,
                   events, answer, documents, citations_bound, citation_details, error>>
    /\ UNCHANGED searchVars
    /\ UNCHANGED concurrentVars

\* search: success status, empty body: raise OnyxSearchException inside the try.
DocumentSearchEmptyBody ==
    /\ pc = "start"
    /\ call' = "search"
    /\ pc' = "raised"
    /\ response_text' = ""
    /\ raised' = [type |-> "OnyxSearchException", cause |-> "empty_body"]
    /\ UNCHANGED <<feed, gen_answer, gen_documents, gen_citations, referenced_doc_ids,
                   events, answer, documents, citations_bound, citation_details, error>>
    /\ UNCHANGED searchVars
    /\ UNCHANGED concurrentVars

\* search: the request fails: except RequestException -> OnyxSearchException.
DocumentSearchFails ==
    /\ pc = "start"
    /\ call' = "search"
    /\ pc' = "raised"
    /\ raised' = [type |-> "OnyxSearchException", cause |-> "transport"]
    /\ UNCHANGED <<feed, gen_answer, gen_documents, gen_citations, referenced_doc_ids,
                   events, answer, documents, citations_bound, citation_details, error>>
    /\ UNCHANGED response_text
    /\ UNCHANGED searchVars
    /\ UNCHANGED concurrentVars

\* get_document: the GET succeeds.
GetDocumentReturns ==
    /\ pc = "start"
    /\ call' = "get_document"
    /\ pc' = "returned"
    /\ UNCHANGED <<feed, raised, gen_answer, gen_documents, gen_citations, referenced_doc_ids,
                   events, answer, documents, citations_bound, citation_details, error>>
    /\ UNCHANGED response_text
    /\ UNCHANGED searchVars
    /\ UNCHANGED concurrentVars

\* get_document: the request fails: except RequestException -> OnyxSearchException.
GetDocumentFails ==
    /\ pc = "start"
    /\ call' = "get_document"
    /\ pc' = "raised"
    /\ raised' = [type |-> "OnyxSearchException", cause |-> "transport"]
    /\ UNCHANGED <<feed, gen_answer, gen_documents, gen_citations, referenced_doc_ids,
                   events, answer, documents, citations_bound, citation_details, error>>
    /\ UNCHANGED response_text
    /\ UNCHANGED searchVars
    /\ UNCHANGED concurrentVars

\* if not line: continue
EmptyLine(u) ==
    /\ Reading
    /\ u.kind = "empty"
    /\ feed' = Append(feed, u)
    /\ UNCHANGED response_text
    /\ UNCHANGED searchVars
    /\ UNCHANGED concurrentVars
    /\ UNCHANGED <<call, raised>>
    /\ UNCHANGED <<pc, gen_answer, gen_documents, gen_citations, referenced_doc_ids,
                   events, answer, documents, citations_bound, citation_details, error>>

\* json.loads raises JSONDecodeError: printed, the loop goes on.
MalformedLine(u) ==
    /\ Reading
    /\ u.kind = "badjson"
    /\ feed' = Append(feed, u)
    /\ UNCHANGED response_text
    /\ UNCHANGED searchVars
    /\ UNCHANGED concurrentVars
    /\ UNCHANGED <<call, raised>>
    /\ UNCHANGED <<pc, gen_answer, gen_documents, gen_citations, referenced_doc_ids,
                   events, answer, documents, citations_bound, citation_details, error>>

\* AnswerPiece as a handler that puts the new piece in front of the text.
AnswerPiece_Prepends(u) ==
    /\ Reading
    /\ u.kind = "packet"
    /\ "answer_piece" \in u.keys
    /\ feed' = Append(feed, u)
    /\ UNCHANGED response_text
    /\ UNCHANGED searchVars
    /\ UNCHANGED concurrentVars
    /\ UNCHANGED <<call, raised>>
    /\ gen_answer' = u.answer_piece \o gen_answer
    /\ events' = Append(events, [type |-> "answer_piece", content |-> u.answer_piece])
    /\ answer' = u.answer_piece \o answer
    /\ UNCHANGED <<pc, gen_documents, gen_citations, referenced_doc_ids,
                   documents, citations_bound, citation_details, error>>

\* AnswerPiece as a handler that goes on to the error key of the same packet.
AnswerPiece_AlsoReportsError(u) ==
    /\ Reading
    /\ u.kind = "packet"
    /\ "answer_piece" \in u.keys
    /\ feed' = Append(feed, u)
    /\ UNCHANGED response_text
    /\ UNCHANGED searchVars
    /\ UNCHANGED concurrentVars
    /\ UNCHANGED <<call, raised>>
    /\ gen_answer' = gen_answer \o u.answer_piece
    /\ events' = IF "error" \in u.keys
                 THEN events \o <<[type |-> "answer_piece", content |-> u.answer_piece],
                                  [type |-> "error", content |-> u.error]>>
                 ELSE Append(events, [type |-> "answer_piece", content |-> u.answer_piece])
    /\ answer' = answer \o u.answer_piece
    /\ error' = IF "error" \in u.keys THEN u.error ELSE error
    /\ UNCHANGED <<pc, gen_documents, gen_citations, referenced_doc_ids,
                   documents, citations_bound, citation_details>>

\* AnswerPiece as a handler that starts a new answer and drops the documents.
AnswerPiece_DropsDocuments(u) ==
    /\ Reading
    /\ u.kind = "packet"
    /\ "answer_piece" \in u.keys
    /\ feed' = Append(feed, u)
    /\ UNCHANGED response_text
    /\ UNCHANGED searchVars
    /\ UNCHANGED concurrentVars
    /\ UNCHANGED <<call, raised>>
    /\ gen_answer' = gen_answer \o u.answer_piece
    /\ events' = Append(events, [type |-> "answer_piece", content |-> u.answer_piece])
    /\ answer' = answer \o u.answer_piece
    /\ gen_documents' = <<>>
    /\ documents' = <<>>
    /\ UNCHANGED <<pc, gen_citations, referenced_doc_ids,
                   citations_bound, citation_details, error>>

\* if "answer_piece" in packet, and the consumer's branch for "answer_piece".
AnswerPiece(u) ==
    /\ Reading
    /\ u.kind = "packet"
    /\ "answer_piece" \in u.keys
    /\ feed' = Append(feed, u)
    /\ UNCHANGED response_text
    /\ UNCHANGED searchVars
    /\ UNCHANGED concurrentVars
    /\ UNCHANGED <<call, raised>>
    /\ gen_answer' = gen_answer \o u.answer_piece
    /\ events' = Append(events, [type |-> "answer_piece", content |-> u.answer_piece])
    /\ answer' = answer \o u.answer_piece
    /\ UNCHANGED <<pc, gen_documents, gen_citations, referenced_doc_ids,
                   documents, citations_bound, citation_details, error>>

\* DocumentBatch as a handler that yields after registering the first document only.
DocumentBatch_HalfApplied(u) ==
    /\ Reading
    /\ u.kind = "packet"
    /\ "answer_piece" \notin u.keys
    /\ "top_documents" \in u.keys
    /\ feed' = Append(feed, u)
    /\ UNCHANGED response_text
    /\ UNCHANGED searchVars
    /\ UNCHANGED concurrentVars
    /\ UNCHANGED <<call, raised>>
    /\ gen_documents' = u.top_documents
    /\ gen_citations' = RegisterDocuments(gen_citations, SubSeq(u.top_documents, 1, 1))
    /\ events' = Append(events, [type |-> "documents", content |-> u.top_documents])
    /\ documents' = u.top_documents
    /\ UNCHANGED <<pc, gen_answer, referenced_doc_ids, answer,
                   citations_bound, citation_details, error>>

\* DocumentBatch as a handler that adds the batch to the documents it has.
DocumentBatch_Extends(u) ==
    /\ Reading
    /\ u.kind = "packet"
    /\ "answer_piece" \notin u.keys
    /\ "top_documents" \in u.keys
    /\ feed' = Append(feed, u)
    /\ UNCHANGED response_text
    /\ UNCHANGED searchVars
    /\ UNCHANGED concurrentVars
    /\ UNCHANGED <<call, raised>>
    /\ gen_documents' = gen_documents \o u.top_documents
    /\ gen_citations' = RegisterDocuments(gen_citations, u.top_documents)
    /\ events' = Append(events, [type |-> "documents", content |-> u.top_documents])
    /\ documents' = documents \o u.top_documents
    /\ UNCHANGED <<pc, gen_answer, referenced_doc_ids, answer,
                   citations_bound, citation_details, error>>

\* elif "top_documents" in packet, and the consumer's branch for "documents".
DocumentBatch(u) ==
    /\ Reading
    /\ u.kind = "packet"
    /\ "answer_piece" \notin u.keys
    /\ "top_documents" \in u.keys
    /\ feed' = Append(feed, u)
    /\ UNCHANGED response_text
    /\ UNCHANGED searchVars
    /\ UNCHANGED concurrentVars
    /\ UNCHANGED <<call, raised>>
    /\ gen_documents' = u.top_documents
    /\ gen_citations' = RegisterDocuments(gen_citations, u.top_documents)
    /\ events' = Append(events, [type |-> "documents", content |-> u.top_documents])
    /\ documents' = u.top_documents
    /\ UNCHANGED <<pc, gen_answer, referenced_doc_ids, answer,
                   citations_bound, citation_details, error>>

\* elif "citations" in packet, and the consumer's branch for "citations".
CitationEvent(u) ==
    /\ Reading
    /\ u.kind = "packet"
    /\ "answer_piece" \notin u.keys
    /\ "top_documents" \notin u.keys
    /\ "citations" \in u.keys
    /\ feed' = Append(feed, u)
    /\ UNCHANGED response_text
    /\ UNCHANGED searchVars
    /\ UNCHANGED concurrentVars
    /\ UNCHANGED <<call, raised>>
    /\ LET r == ApplyCitations(gen_citations, referenced_doc_ids, u.citations)
       IN /\ gen_citations' = r.citations
          /\ referenced_doc_ids' = r.referenced
          /\ events' = Append(events, [type |-> "citations", content |-> r.citations])
          /\ citations_bound' = TRUE
          /\ citation_details' = CitationDetails(r.citations)
    /\ UNCHANGED <<pc, gen_answer, gen_documents, answer, documents, error>>

\* ErrorEvent as a handler that starts over: the error clears the answer.
ErrorEvent_Resets(u) ==
    /\ Reading
    /\ u.kind = "packet"
    /\ "answer_piece" \notin u.keys
    /\ "top_documents" \notin u.keys
    /\ "citations" \notin u.keys
    /\ "error" \in u.keys
    /\ feed' = Append(feed, u)
    /\ UNCHANGED response_text
    /\ UNCHANGED searchVars
    /\ UNCHANGED concurrentVars
    /\ UNCHANGED <<call, raised>>
    /\ events' = Append(events, [type |-> "error", content |-> u.error])
    /\ error' = u.error
    /\ answer' = <<>>
    /\ UNCHANGED <<pc, gen_answer, gen_documents, gen_citations, referenced_doc_ids,
                   documents, citations_bound, citation_details>>

\* elif "error" in packet, and the consumer's branch for "error".
ErrorEvent(u) ==
    /\ Reading
    /\ u.kind = "packet"
    /\ "answer_piece" \notin u.keys
    /\ "top_documents" \notin u.keys
    /\ "citations" \notin u.keys
    /\ "error" \in u.keys
    /\ feed' = Append(feed, u)
    /\ UNCHANGED response_text
    /\ UNCHANGED searchVars
    /\ UNCHANGED concurrentVars
    /\ UNCHANGED <<call, raised>>
    /\ events' = Append(events, [type |-> "error", content |-> u.error])
    /\ error' = u.error
    /\ UNCHANGED <<pc, gen_answer, gen_documents, gen_citations, referenced_doc_ids,
                   answer, documents, citations_bound, citation_details>>

\* A JSON object with none of the four keys: no branch is taken.
UnrecognizedPacket(u) ==
    /\ Reading
    /\ u.kind = "packet"
    /\ u.keys \cap {"answer_piece", "top_documents", "citations", "error"} = {}
    /\ feed' = Append(feed, u)
    /\ UNCHANGED response_text
    /\ UNCHANGED searchVars
    /\ UNCHANGED concurrentVars
    /\ UNCHANGED <<call, raised>>
    /\ UNCHANGED <<pc, gen_answer, gen_documents, gen_citations, referenced_doc_ids,
                   events, answer, documents, citations_bound, citation_details, error>>

\* iter_lines() is exhausted: search_with_answer returns its dict.
EndOfFeed ==
    /\ pc = "reading"
    /\ pc' = "returned"
    /\ UNCHANGED response_text
    /\ UNCHANGED searchVars
    /\ UNCHANGED concurrentVars
    /\ UNCHANGED <<call, raised>>
    /\ UNCHANGED <<feed, gen_answer, gen_documents, gen_citations, referenced_doc_ids,
                   events, answer, documents, citations_bound, citation_details, error>>

\* The generator is suspended at a yield (or not started) and its consumer stops
\* iterating: with stream=True the caller's loop over the returned generator
\* breaks, and the generator is never resumed.
StopConsuming ==
    /\ pc = "reading"
    /\ IF feed = <<>> THEN TRUE
       ELSE /\ feed[Len(feed)].kind = "packet"
            /\ feed[Len(feed)].keys \cap
                   {"answer_piece", "top_documents", "citations", "error"} # {}
    /\ pc' = "cancelled"
    /\ UNCHANGED response_text
    /\ UNCHANGED searchVars
    /\ UNCHANGED concurrentVars
    /\ UNCHANGED <<call, raised>>
    /\ UNCHANGED <<feed, gen_answer, gen_documents, gen_citations, referenced_doc_ids,
                   events, answer, documents, citations_bound, citation_details, error>>

\* The dict search_with_answer returns (stream=False).
Result ==
    [answer |-> answer, documents |-> documents, citations |-> citations,
     citation_details |-> citation_details, error |-> error]

(***************************************************************************)
(* Document search and admin search (query_backend.py)                     *)
(***************************************************************************)

SearchDoc(id, chunk) == [document_id |-> id, chunk_ind |-> chunk]

\* The documents a ranked list is drawn from: document A comes with two chunks.
SearchDocs == {SearchDoc("A", 0), SearchDoc("A", 1), SearchDoc("B", 0), SearchDoc("C", 0)}

\* All lists over S of length at most n.
ListsUpTo(S, n) == UNION {[1..k -> S] : k \in 0..n}

\* dedupe_documents, the loop: items[index..] against the keys seen so far.
\* Positions are 0-based, as list indices are.
RECURSIVE DedupeLoop(_, _, _, _, _)
DedupeLoop(items, index, seen, deduped, dropped) ==
    IF index > Len(items) THEN [deduped |-> deduped, dropped |-> dropped]
    ELSE LET item == items[index]
         IN IF item.document_id \notin seen
            THEN DedupeLoop(items, index + 1, seen \cup {item.document_id},
                            Append(deduped, item), dropped)
            ELSE DedupeLoop(items, index + 1, seen, deduped, dropped \cup {index - 1})

\* dedupe_documents(items) -> (deduped items, dropped positions)
dedupe_documents(items) == DedupeLoop(items, 1, {}, <<>>, {})

\* relevant_sections_to_indices: the positions of items whose (document, chunk)
\* was judged relevant.
relevant_sections_to_indices(relevance, items) ==
    {i - 1 : i \in {i \in DOMAIN items : items[i] \in relevance}}

\* mapIndices, the loop over the indices not yet handled.
RECURSIVE MapLoop(_, _, _)
MapLoop(todo, dropped, result) ==
    IF todo = {} THEN result
    ELSE LET i == CHOOSE x \in todo : TRUE
         IN IF i \in dropped
            THEN MapLoop(todo \ {i}, dropped, result)
            ELSE MapLoop(todo \ {i}, dropped,
                         result \cup {i - Cardinality({d \in dropped : d < i})})

\* mapIndices leaving out the indices that are out of range.
MapIndices_DropsOutOfRange(original, dropped, n) ==
    [ok |-> TRUE, indices |-> MapLoop({i \in original : i >= 0 /\ i < n}, dropped, {})]

\* mapIndices(original, dropped) for a pre-dedup list of length n: an index out of
\* range rejects the call.
MapIndices(original, dropped, n) ==
    IF \E i \in original : i < 0 \/ i >= n
    THEN [ok |-> FALSE, indices |-> {}]
    ELSE [ok |-> TRUE, indices |-> MapLoop(original, dropped, {})]

\* drop_llm_indices(llm_indices, search_docs, dropped_indices), as called with the
\* deduplicated list: the pre-dedup list had len(search_docs) + len(dropped) items.
drop_llm_indices(indices, search_docs, dropped_indices) ==
    MapIndices(indices, dropped_indices, Len(search_docs) + Cardinality(dropped_indices))

\* handle_search_request without the index update after deduplication.
SearchOutcome_SkipsMapping(docs, flag, relevance) ==
    LET d == IF flag THEN dedupe_documents(docs)
             ELSE [deduped |-> docs, dropped |-> {}]
    IN [deduped_docs |-> d.deduped, dropped_inds |-> d.dropped,
        ok |-> TRUE, llm_indices |-> relevant_sections_to_indices(relevance, d.deduped)]

\* handle_search_request returning the relevant positions of the list before
\* deduplication as they are.
SearchOutcome_UnmappedOriginal(docs, flag, relevance) ==
    LET d == IF flag THEN dedupe_documents(docs)
             ELSE [deduped |-> docs, dropped |-> {}]
    IN [deduped_docs |-> d.deduped, dropped_inds |-> d.dropped,
        ok |-> TRUE, llm_indices |-> relevant_sections_to_indices(relevance, docs)]

\* handle_search_request keeping only the list of dedupe_documents' result.
SearchOutcome_DiscardsDropped(docs, flag, relevance) ==
    LET d == IF flag THEN dedupe_documents(docs)
             ELSE [deduped |-> docs, dropped |-> {}]
    IN [deduped_docs |-> d.deduped, dropped_inds |-> {},
        ok |-> TRUE, llm_indices |-> relevant_sections_to_indices(relevance, d.deduped)]

\* handle_search_request returning no index unless the mapping ran.
SearchOutcome_EmptyUnlessMapped(docs, flag, relevance) ==
    LET d == IF flag THEN dedupe_documents(docs)
             ELSE [deduped |-> docs, dropped |-> {}]
        indices == relevant_sections_to_indices(relevance, d.deduped)
        mapped == IF d.dropped # {}
                  THEN drop_llm_indices(indices, d.deduped, d.dropped)
                  ELSE [ok |-> TRUE, indices |-> {}]
    IN [deduped_docs |-> d.deduped, dropped_inds |-> d.dropped,
        ok |-> mapped.ok, llm_indices |-> mapped.indices]

\* handle_search_request deduplicating and mapping whatever dedupe_docs says.
SearchOutcome_IgnoresFlag(docs, flag, relevance) ==
    LET d == dedupe_documents(docs)
        indices == relevant_sections_to_indices(relevance, d.deduped)
        mapped == IF d.dropped # {}
                  THEN drop_llm_indices(indices, d.deduped, d.dropped)
                  ELSE [ok |-> TRUE, indices |-> indices]
    IN [deduped_docs |-> d.deduped, dropped_inds |-> d.dropped,
        ok |-> mapped.ok, llm_indices |-> mapped.indices]

\* handle_search_request from the converted top_docs on. dropped_inds None and []
\* are both falsy and both {} here.
SearchOutcome(docs, flag, relevance) ==
    LET d == IF flag THEN dedupe_documents(docs)
             ELSE [deduped |-> docs, dropped |-> {}]
        indices == relevant_sections_to_indices(relevance, d.deduped)
        mapped == IF d.dropped # {}
                  THEN drop_llm_indices(indices, d.deduped, d.dropped)
                  ELSE [ok |-> TRUE, indices |-> indices]
    IN [deduped_docs |-> d.deduped, dropped_inds |-> d.dropped,
        ok |-> mapped.ok, llm_indices |-> mapped.indices]

\* admin_search's inline loop over documents.
RECURSIVE AdminDedupeLoop(_, _, _)
AdminDedupeLoop(docs, deduplicated, seen_documents) ==
    IF docs = <<>> THEN deduplicated
    ELSE LET document == Head(docs)
         IN IF document.document_id \notin seen_documents
            THEN AdminDedupeLoop(Tail(docs), Append(deduplicated, document),
                                 seen_documents \cup {document.document_id})
            ELSE AdminDedupeLoop(Tail(docs), deduplicated, seen_documents)

\* The inline loop comparing a document with its predecessor only.
AdminDedupe_AdjacentOnly(docs) ==
    SelectSeq([i \in DOMAIN docs |-> [doc |-> docs[i],
                                      keep |-> i = 1 \/ docs[i].document_id # docs[i - 1].document_id]],
              LAMBDA e : e.keep)

\* The inline loop with seen_documents emptied whenever a duplicate is skipped.
RECURSIVE AdminDedupeLoop_ForgetsSeen(_, _, _)
AdminDedupeLoop_ForgetsSeen(docs, deduplicated, seen_documents) ==
    IF docs = <<>> THEN deduplicated
    ELSE LET document == Head(docs)
         IN IF document.document_id \notin seen_documents
            THEN AdminDedupeLoop_ForgetsSeen(Tail(docs), Append(deduplicated, document),
                                             seen_documents \cup {document.document_id})
            ELSE AdminDedupeLoop_ForgetsSeen(Tail(docs), deduplicated, {})

AdminDedupe_ForgetsSeen(docs) == AdminDedupeLoop_ForgetsSeen(docs, <<>>, {})

AdminDedupe(docs) == AdminDedupeLoop(docs, <<>>, {})

NoMapCall == [original |-> {}, dropped |-> {}, n |-> 0]

Idle == op = "idle" /\ map_call = NoMapCall

\* POST /query/document-search
HandleSearchRequest ==
    /\ Idle
    /\ \E flag \in BOOLEAN, relevance \in SUBSET SearchDocs :
        LET r == SearchOutcome(top_docs, flag, relevance)
        IN /\ dedupe_docs' = flag
           /\ relevance_sections' = relevance
           /\ deduped_docs' = r.deduped_docs
           /\ dropped_inds' = r.dropped_inds
           /\ llm_indices' = r.llm_indices
           /\ op' = IF r.ok THEN "document_search" ELSE "raised"
    /\ UNCHANGED <<top_docs, deduplicated_documents, map_call, map_result,
                   document_index, admin_retrieval_called>>
    /\ UNCHANGED feedVars
    /\ UNCHANGED concurrentVars

\* admin_search with the isinstance check placed after the retrieval.
AdminSearchRejected_AfterRetrieval ==
    /\ Idle
    /\ document_index # "vespa"
    /\ admin_retrieval_called' = TRUE
    /\ op' = "admin_rejected"
    /\ UNCHANGED <<top_docs, dedupe_docs, relevance_sections, deduped_docs, dropped_inds,
                   llm_indices, deduplicated_documents, map_call, map_result, document_index>>
    /\ UNCHANGED feedVars
    /\ UNCHANGED concurrentVars

\* POST /admin/search against a document index that is not a VespaIndex: 400.
AdminSearchRejected ==
    /\ Idle
    /\ document_index # "vespa"
    /\ op' = "admin_rejected"
    /\ UNCHANGED <<top_docs, dedupe_docs, relevance_sections, deduped_docs, dropped_inds,
                   llm_indices, deduplicated_documents, map_call, map_result,
                   document_index, admin_retrieval_called>>
    /\ UNCHANGED feedVars
    /\ UNCHANGED concurrentVars

\* POST /admin/search against a VespaIndex; top_docs is what admin_retrieval found.
AdminSearch ==
    /\ Idle
    /\ document_index = "vespa"
    /\ admin_retrieval_called' = TRUE
    /\ op' = "admin_search"
    /\ deduplicated_documents' = AdminDedupe(top_docs)
    /\ UNCHANGED <<top_docs, dedupe_docs, relevance_sections, deduped_docs, dropped_inds,
                   llm_indices, map_call, map_result, document_index>>
    /\ UNCHANGED feedVars
    /\ UNCHANGED concurrentVars

\* A direct call of the index mapper on the arguments of map_call.
MapIndicesCall ==
    /\ op = "idle"
    /\ top_docs = <<>>
    /\ op' = "map_indices"
    /\ map_result' = MapIndices(map_call.original, map_call.dropped, map_call.n)
    /\ UNCHANGED <<top_docs, dedupe_docs, relevance_sections, deduped_docs, dropped_inds,
                   llm_indices, deduplicated_documents, map_call,
                   document_index, admin_retrieval_called>>
    /\ UNCHANGED feedVars
    /\ UNCHANGED concurrentVars

\* The locals of process_streaming_response when the generator starts.
FreshState == [answer |-> <<>>, documents |-> <<>>, citations |-> <<>>, referenced |-> {}]

\* Two calls of search_with_answer in flight at once, and the client objects.
Runs == {1, 2}

Clients == {"c1", "c2"}

\* A call that has its response and has read no line of it.
FreshFrame == [feed |-> <<>>, st |-> FreshState, events |-> <<>>, pc |-> "reading"]

\* No concurrent calls are being followed.
NoConcurrent ==
    /\ frames = [r \in Runs |-> FreshFrame]
    /\ client_of = [r \in Runs |-> "c1"]

FeedInit ==
    /\ feed = <<>>
    /\ call = "none"
    /\ pc = "start"
    /\ raised = NoException
    /\ response_text = None
    /\ gen_answer = <<>>
    /\ gen_documents = <<>>
    /\ gen_citations = <<>>
    /\ referenced_doc_ids = {}
    /\ events = <<>>
    /\ answer = <<>>
    /\ documents = <<>>
    /\ citations_bound = FALSE
    /\ citation_details = <<>>
    /\ error = None

\* No backend call: the state of the search variables in the feed's specification.
NoSearch ==
    /\ op = "idle"
    /\ top_docs = <<>>
    /\ dedupe_docs = FALSE
    /\ relevance_sections = {}
    /\ deduped_docs = <<>>
    /\ dropped_inds = {}
    /\ llm_indices = {}
    /\ deduplicated_documents = <<>>
    /\ map_call = NoMapCall
    /\ map_result = [ok |-> TRUE, indices |-> {}]
    /\ document_index = "vespa"
    /\ admin_retrieval_called = FALSE

\* A backend call about to be made: a ranked list for the two search routes, or
\* the arguments of an index-mapping call (original may hold the out-of-range
\* indices -1 and n).
SearchInit ==
    /\ op = "idle"
    /\ admin_retrieval_called = FALSE
    /\ dedupe_docs = FALSE
    /\ relevance_sections = {}
    /\ deduped_docs = <<>>
    /\ dropped_inds = {}
    /\ llm_indices = {}
    /\ deduplicated_documents = <<>>
    /\ map_result = [ok |-> TRUE, indices |-> {}]
    /\ \/ /\ top_docs \in ListsUpTo(SearchDocs, MaxDocs)
          /\ document_index \in {"vespa", "other"}
          /\ map_call = NoMapCall
       \/ /\ top_docs = <<>>
          /\ document_index = "vespa"
          /\ \E n \in 1..MaxDocs :
                map_call \in [original : SUBSET ((-1)..n), dropped : SUBSET (0..(n - 1)), n : {n}]

Init == FeedInit /\ NoSearch /\ NoConcurrent

Next ==
    \/ CreateSession
    \/ CreateSessionFails
    \/ SendMessage
    \/ SendMessageFails
    \/ ReadFails
    \/ DocumentSearchReturns
    \/ DocumentSearchEmptyBody
    \/ DocumentSearchFails
    \/ GetDocumentReturns
    \/ GetDocumentFails
    \/ \E u \in Units : EmptyLine(u)
    \/ \E u \in Units : MalformedLine(u)
    \/ \E u \in Units : NonObjectLine(u)
    \/ \E u \in Units : UndecodableLine(u)
    \/ StopConsuming
    \/ \E u \in Units : AnswerPiece(u)
    \/ \E u \in Units : DocumentBatch(u)
    \/ \E u \in Units : CitationEvent(u)
    \/ \E u \in Units : ErrorEvent(u)
    \/ \E u \in Units : UnrecognizedPacket(u)
    \/ EndOfFeed

Spec == Init /\ [][Next]_vars

SearchNext ==
    \/ HandleSearchRequest
    \/ AdminSearchRejected
    \/ AdminSearch
    \/ MapIndicesCall

SearchSpecInit == FeedInit /\ SearchInit /\ NoConcurrent

SearchSpec == SearchSpecInit /\ [][SearchNext]_vars

(***************************************************************************)
(* Vocabulary of the claims: packets of the feed, read off the lines       *)
(***************************************************************************)

\* The packet kind of a line: first matching key wins; "none" for a line that is
\* empty, not JSON, or carries none of the four keys.
PacketType(u) ==
    IF u.kind # "packet" THEN "none"
    ELSE IF "answer_piece" \in u.keys THEN "answer_piece"
    ELSE IF "top_documents" \in u.keys THEN "top_documents"
    ELSE IF "citations" \in u.keys THEN "citations"
    ELSE IF "error" \in u.keys THEN "error"
    ELSE "none"

\* This step consumed one line, a packet of kind t.
IsStep(t) == Len(feed') = Len(feed) + 1 /\ PacketType(feed'[Len(feed')]) = t

\* Line u is a DocumentBatch holding a document whose id field is id.
BatchHasId(u, id) ==
    /\ PacketType(u) = "top_documents"
    /\ \E i \in DOMAIN u.top_documents : Get(u.top_documents[i], "id", None) = id

\* Line u is a CitationEvent holding a well-formed pair for id.
CitesId(u, id) ==
    /\ PacketType(u) = "citations"
    /\ \E i \in DOMAIN u.citations : Len(u.citations[i]) = 2 /\ u.citations[i][1] = id

\* The citation_text of the last pair for id in CitationEvent u.
LastTextFor(u, id) ==
    LET hits == {i \in DOMAIN u.citations : Len(u.citations[i]) = 2 /\ u.citations[i][1] = id}
        last == CHOOSE i \in hits : \A j \in hits : j <= i
    IN u.citations[last][2]

IsPrefix(s, t) == Len(s) <= Len(t) /\ SubSeq(t, 1, Len(s)) = s

\* Concatenation of the AnswerPiece texts of lines f, in order.
RECURSIVE AnswerText(_)
AnswerText(f) ==
    IF f = <<>> THEN <<>>
    ELSE (IF PacketType(Head(f)) = "answer_piece" THEN Head(f).answer_piece ELSE <<>>)
         \o AnswerText(Tail(f))

\* The document list of the last DocumentBatch of lines f; empty if there is none.
LastDocuments(f) ==
    LET bs == {k \in DOMAIN f : PacketType(f[k]) = "top_documents"}
    IN IF bs = {} THEN <<>>
       ELSE f[CHOOSE k \in bs : \A j \in bs : j <= k].top_documents

(***************************************************************************)
(* Claims                                                                  *)
(***************************************************************************)

\* C1 (as stated): a CitationEvent pair (id, text) that arrives before the first
\* DocumentBatch holding id is kept pending and applied at insertion, so when the
\* feed has ended the registry entry of id has citation_text = text.
C1_PendingCitationApplied ==
    pc = "returned" =>
        \A i, j \in DOMAIN feed : \A id \in DocIds :
            ( /\ i < j
              /\ CitesId(feed[i], id)
              /\ BatchHasId(feed[j], id)
              /\ \A k \in 1..(j - 1) : ~BatchHasId(feed[k], id)
              /\ \A k \in (i + 1)..Len(feed) : ~CitesId(feed[k], id) )
            => /\ DictHas(gen_citations, id)
               /\ DictGet(gen_citations, id).citation_text = LastTextFor(feed[i], id)

\* C2 (as stated): a DocumentBatch leaves every entry that is already in the
\* registry exactly as it was, citation_text included.
C2_FirstBatchWins ==
    [][IsStep("top_documents") =>
        \A id \in DictKeys(gen_citations) :
            /\ DictHas(gen_citations', id)
            /\ DictGet(gen_citations', id) = DictGet(gen_citations, id)]_vars

\* C3 (as stated): the returned citation_details holds entries only for documents
\* whose id occurred in a CitationEvent pair. citation_details[i] is built from
\* the i-th registry entry, whose key is gen_citations[i].key.
C3_OnlyReferencedInDetails ==
    pc = "returned" =>
        \A i \in DOMAIN citation_details :
            /\ i \in DOMAIN gen_citations
            /\ gen_citations[i].key \in referenced_doc_ids

\* C4, the final result: a feed with an ErrorEvent returns normally; the result
\* carries an ErrorEvent's message, the answer text of the packets before the
\* error, the documents of the last batch before it (unless a later batch
\* replaced the list) and, once a CitationEvent was seen, an entry for every
\* document registered before the error.
C4_Final ==
    pc = "returned" =>
        \A k \in DOMAIN feed :
            PacketType(feed[k]) = "error" =>
                LET before == SubSeq(feed, 1, k - 1)
                    after == SubSeq(feed, k + 1, Len(feed))
                    errs == {j \in k..Len(feed) : PacketType(feed[j]) = "error"}
                IN /\ Result.error # None
                   /\ Result.error = feed[CHOOSE j \in errs : \A l \in errs : l <= j].error
                   /\ IsPrefix(AnswerText(before), Result.answer)
                   /\ (\A j \in DOMAIN after : PacketType(after[j]) # "top_documents")
                        => Result.documents = LastDocuments(before)
                   /\ (\E j \in DOMAIN before : PacketType(before[j]) = "citations")
                        => \A id \in DocIds :
                              (\E j \in DOMAIN before : BatchHasId(before[j], id))
                                  => DictHas(Result.citations, id)

\* C4, the step that handles an ErrorEvent: it keeps reading (no exception),
\* records the message and discards nothing that was accumulated.
C4_ErrorStepKeeps ==
    IsStep("error") =>
        /\ pc' = "reading"
        /\ error' = feed'[Len(feed')].error
        /\ answer' = answer
        /\ documents' = documents
        /\ citations' = citations
        /\ citation_details' = citation_details
        /\ gen_citations' = gen_citations
        /\ referenced_doc_ids' = referenced_doc_ids

C5_ErrorIsTerminal ==
    [][(\E k \in DOMAIN feed : PacketType(feed[k]) = "error") =>
        /\ answer' = answer
        /\ documents' = documents
        /\ gen_citations' = gen_citations
        /\ citations' = citations
        /\ citation_details' = citation_details
        /\ referenced_doc_ids' = referenced_doc_ids
        /\ error' = error]_vars

(***************************************************************************)
(* Vocabulary of the claims: deduplication and index mapping               *)
(***************************************************************************)

\* Position i (1-based) of L is the first occurrence of its document_id.
FirstOccurrence(L, i) == \A j \in 1..(i - 1) : L[j].document_id # L[i].document_id

\* The k-th smallest element of a set of integers.
NthSmallest(S, k) == CHOOSE x \in S : Cardinality({y \in S : y <= x}) = k

\* The subsequence of L made of the first occurrence of each document_id.
FirstOccurrences(L) ==
    LET kept == {i \in DOMAIN L : FirstOccurrence(L, i)}
    IN [k \in 1..Cardinality(kept) |-> L[NthSmallest(kept, k)]]

\* The 0-based positions of L that repeat an earlier document_id.
DroppedPositions(L) == {i - 1 : i \in {i \in DOMAIN L : ~FirstOccurrence(L, i)}}

\* The new position of surviving index i once the dropped positions are removed.
Shifted(i, dropped) == i - Cardinality({d \in dropped : d < i})

\* The mapped index set of spec 4.2, as a set.
MappedSet(original, dropped) == {Shifted(i, dropped) : i \in original \ dropped}

\* The 0-based positions of the list before deduplication that are relevant.
OriginalRelevant == {i - 1 : i \in {i \in DOMAIN top_docs : top_docs[i] \in relevance_sections}}

\* C6 (as stated): with dedupe_docs on, llm_indices is the mapping of the relevant
\* positions of the list before deduplication, and each returned index points in
\* top_documents at the document its original index pointed at.
C6_DedupThenMap ==
    (op = "document_search" /\ dedupe_docs) =>
        /\ dropped_inds = DroppedPositions(top_docs)
        /\ llm_indices = MappedSet(OriginalRelevant, dropped_inds)
        /\ \A i \in OriginalRelevant \ dropped_inds :
              /\ Shifted(i, dropped_inds) \in llm_indices
              /\ deduped_docs[Shifted(i, dropped_inds) + 1] = top_docs[i + 1]

\* C7: the index mapper returns exactly { i - |{d in dropped : d < i}| : i in
\* original, i not in dropped }, distinct surviving indices giving distinct
\* results; document-search applies it to its indices whenever something was dropped.
C7_MapIndicesExact ==
    /\ (op = "map_indices" /\ map_call.original \subseteq 0..(map_call.n - 1)) =>
          /\ map_result.ok
          /\ map_result.indices = MappedSet(map_call.original, map_call.dropped)
          /\ Cardinality(map_result.indices) = Cardinality(map_call.original \ map_call.dropped)
    /\ (op = "document_search" /\ dropped_inds # {}) =>
          llm_indices =
              MappedSet(relevant_sections_to_indices(relevance_sections, deduped_docs), dropped_inds)

\* C7 witness: a mapping call that discards a dropped index and shifts two others.
C7_Witness ==
    /\ op = "map_indices"
    /\ map_call.original = {0, 2, 3}
    /\ map_call.dropped = {1, 2}
    /\ map_result.indices = {0, 1}

\* C8: every mapped index is a position of the deduplicated list: at least 0 and
\* below len(pre-dedup list) - len(dropped), which is len(top_documents) in the
\* document-search response.
C8_IndexValidity ==
    /\ (op = "map_indices" /\ map_call.original \subseteq 0..(map_call.n - 1)) =>
          \A v \in map_result.indices :
              v >= 0 /\ v < map_call.n - Cardinality(map_call.dropped)
    /\ op = "document_search" =>
          /\ Len(deduped_docs) = Len(top_docs) - Cardinality(dropped_inds)
          /\ \A v \in llm_indices : v >= 0 /\ v < Len(deduped_docs)

\* C8 witness: a document-search response after a duplicate was dropped, whose
\* last document is relevant.
C8_Witness ==
    /\ op = "document_search"
    /\ dropped_inds # {}
    /\ Len(deduped_docs) >= 2
    /\ (Len(deduped_docs) - 1) \in relevant_sections_to_indices(relevance_sections, deduped_docs)

\* C9: deduplication returns the first occurrence of each document_id, in the
\* order of the input: no document_id twice, every document_id once, no reordering.
C9_FirstOccurrencesInOrder ==
    /\ op = "admin_search" =>
          /\ deduplicated_documents = FirstOccurrences(top_docs)
          /\ \A i, j \in DOMAIN deduplicated_documents :
                i # j => deduplicated_documents[i].document_id # deduplicated_documents[j].document_id
          /\ {deduplicated_documents[i].document_id : i \in DOMAIN deduplicated_documents}
                = {top_docs[i].document_id : i \in DOMAIN top_docs}
    /\ (op = "document_search" /\ dedupe_docs) =>
          deduped_docs = FirstOccurrences(top_docs)

\* C9 witness: admin search over a list whose first document comes again after
\* another one.
C9_Witness ==
    /\ op = "admin_search"
    /\ Len(top_docs) >= 3
    /\ top_docs[1].document_id = top_docs[3].document_id
    /\ top_docs[1].document_id # top_docs[2].document_id
    /\ Len(deduplicated_documents) = Len(top_docs) - 1

\* C10: deduplicating a deduplicated list returns it unchanged, and the second
\* pass drops no position.
C10_DedupeIdempotent ==
    /\ op = "admin_search" =>
          AdminDedupe(deduplicated_documents) = deduplicated_documents
    /\ (op = "document_search" /\ dedupe_docs) =>
          /\ dedupe_documents(deduped_docs).deduped = deduped_docs
          /\ dedupe_documents(deduped_docs).dropped = {}

\* C10 witness: admin search that removed two copies of one document.
C10_Witness ==
    /\ op = "admin_search"
    /\ Len(top_docs) >= 3
    /\ \A i \in 1..3 : top_docs[i].document_id = "A"
    /\ Len(deduplicated_documents) = Len(top_docs) - 2

\* C11: the dropped set holds exactly the positions that repeat an earlier
\* document_id; kept and dropped positions partition the positions of the list,
\* so len(deduplicated) + |dropped| = len(list), and the result is made of the
\* kept positions only.
C11_DroppedPositionsExact ==
    (op = "document_search" /\ dedupe_docs) =>
        LET kept == {i - 1 : i \in {i \in DOMAIN top_docs : FirstOccurrence(top_docs, i)}}
        IN /\ dropped_inds = DroppedPositions(top_docs)
           /\ kept \cup dropped_inds = 0..(Len(top_docs) - 1)
           /\ kept \cap dropped_inds = {}
           /\ Len(deduped_docs) + Cardinality(dropped_inds) = Len(top_docs)
           /\ \A k \in DOMAIN deduped_docs :
                 deduped_docs[k] = top_docs[NthSmallest(kept, k) + 1]

\* C11 witness: a deduplicating search that dropped two positions, not adjacent.
C11_Witness ==
    /\ op = "document_search"
    /\ dedupe_docs
    /\ dropped_inds = {1, 3}

\* C12: with an empty dropped set the mapped relevance indices are the original
\* ones, for every original index set, the empty one included.
C12_IdentityMapping ==
    /\ ( /\ op = "map_indices"
         /\ map_call.dropped = {}
         /\ map_call.original \subseteq 0..(map_call.n - 1) ) =>
          /\ map_result.ok
          /\ map_result.indices = map_call.original
    /\ (op = "document_search" /\ dropped_inds = {}) =>
          llm_indices = OriginalRelevant

\* C12 witness: a deduplicating search that found no duplicate among three
\* documents, two of them relevant.
C12_Witness ==
    /\ op = "document_search"
    /\ dedupe_docs
    /\ Len(top_docs) = 3
    /\ dropped_inds = {}
    /\ llm_indices = {0, 2}

\* C13: an original index that is negative or not below the length of the
\* pre-dedup list rejects the whole mapping call: no mapped index set comes back.
C13_OutOfRangeRejected ==
    ( /\ op = "map_indices"
      /\ \E i \in map_call.original : i < 0 \/ i >= map_call.n ) =>
        /\ ~map_result.ok
        /\ map_result.indices = {}

\* C13 witness: a rejected call whose other indices were in range and not dropped.
C13_Witness ==
    /\ op = "map_indices"
    /\ map_call.n = 3
    /\ map_call.original = {0, 3}
    /\ map_call.dropped = {1}
    /\ ~map_result.ok

\* C20: with a document index that is not a VespaIndex, admin_search is rejected
\* before any retrieval: admin_retrieval is never invoked and no documents are
\* returned.
C20_UnsupportedBackendRejected ==
    /\ document_index # "vespa" =>
          /\ ~admin_retrieval_called
          /\ op # "admin_search"
          /\ deduplicated_documents = <<>>
    /\ op = "admin_rejected" => document_index # "vespa"

\* C20 witness: admin search rejected although documents were there to be found.
C20_Witness ==
    /\ op = "admin_rejected"
    /\ document_index = "other"
    /\ Len(top_docs) >= 2

(***************************************************************************)
(* Claims about the answer feed and the client calls, continued            *)
(***************************************************************************)

\* The ids of the well-formed pairs of the CitationEvents of lines f.
CitedIds(f) == {id \in DocIds : \E k \in DOMAIN f : CitesId(f[k], id)}

\* The ids the returned citations mark as cited: those whose entry has a text.
MarkedCited ==
    {id \in DictKeys(Result.citations) : DictGet(Result.citations, id).citation_text # NoKey}

\* C14 (as stated): the output of a completed feed carries the set of referenced
\* document ids, equal to the ids that occurred in a CitationEvent pair: as a
\* field of the result, or at least as the ids its citations mark as cited.
C14_ReferencedIdsInOutput ==
    (call = "search_with_answer" /\ pc = "returned") =>
        \/ "referenced_doc_ids" \in DOMAIN Result
        \/ MarkedCited = CitedIds(feed)

\* The place of the first well-formed pair for id in lines f: line, then pair.
FirstReference(f, id) ==
    LET k == CHOOSE k \in DOMAIN f :
                 CitesId(f[k], id) /\ \A j \in DOMAIN f : CitesId(f[j], id) => k <= j
        i == CHOOSE i \in DOMAIN f[k].citations :
                 /\ Len(f[k].citations[i]) = 2 /\ f[k].citations[i][1] = id
                 /\ \A j \in DOMAIN f[k].citations :
                        (Len(f[k].citations[j]) = 2 /\ f[k].citations[j][1] = id) => i <= j
    IN <<k, i>>

ReferencedBefore(f, a, b) ==
    LET ra == FirstReference(f, a)
        rb == FirstReference(f, b)
    IN ra[1] < rb[1] \/ (ra[1] = rb[1] /\ ra[2] < rb[2])

\* C15 (as stated): the referenced documents of the returned citation list are
\* in the order in which their ids were first referenced by CitationEvent pairs.
\* citation_details[i] is built from the registry entry with key gen_citations[i].key.
C15_FirstReferenceOrder ==
    (call = "search_with_answer" /\ pc = "returned") =>
        \A i, j \in DOMAIN citation_details :
            (/\ i < j
             /\ gen_citations[i].key \in CitedIds(feed)
             /\ gen_citations[j].key \in CitedIds(feed))
            => ReferencedBefore(feed, gen_citations[i].key, gen_citations[j].key)

\* C16: every key of the registry, in the generator and in the result, is the id
\* of a document of a DocumentBatch already consumed; an id that only a
\* CitationEvent pair named has no entry.
C16_KeysFromBatchesOnly ==
    /\ \A key \in DictKeys(gen_citations) : \E k \in DOMAIN feed : BatchHasId(feed[k], key)
    /\ \A key \in DictKeys(Result.citations) : \E k \in DOMAIN feed : BatchHasId(feed[k], key)

\* C16 witness: a pair cited d2 while only d1 was registered, and the feed completed.
C16_Witness ==
    /\ pc = "returned"
    /\ "d2" \in referenced_doc_ids
    /\ DictKeys(gen_citations) = {"d1"}
    /\ citations_bound

\* The event type search_with_answer sees for a packet kind.
EventType(t) == IF t = "top_documents" THEN "documents" ELSE t

\* The event types the recognized packets of lines f produce, in order.
RECURSIVE EventTypes(_)
EventTypes(f) ==
    IF f = <<>> THEN <<>>
    ELSE (IF PacketType(Head(f)) = "none" THEN <<>>
          ELSE <<EventType(PacketType(Head(f)))>>)
         \o EventTypes(Tail(f))

\* The lines of f that are recognized packets, in order.
RECURSIVE Recognized(_)
Recognized(f) ==
    IF f = <<>> THEN <<>>
    ELSE (IF PacketType(Head(f)) = "none" THEN <<>> ELSE <<Head(f)>>)
         \o Recognized(Tail(f))

\* C17: the answer text, in the generator and in the result, is the
\* concatenation of the AnswerPiece texts of the lines consumed, in arrival
\* order, whatever lines lie between them; and the events are one per
\* recognized packet, in arrival order, an answer_piece event carrying its text.
C17_AnswerInOrder ==
    /\ gen_answer = AnswerText(feed)
    /\ answer = AnswerText(feed)
    /\ Result.answer = AnswerText(feed)
    /\ [i \in DOMAIN events |-> events[i].type] = EventTypes(feed)
    /\ \A i \in DOMAIN events :
           events[i].type = "answer_piece" =>
               events[i].content = Recognized(feed)[i].answer_piece

\* C17 witness: two different pieces with a DocumentBatch and an unparseable
\* line between them, and the feed completed.
C17_Witness ==
    /\ pc = "returned"
    /\ Len(feed) = 4
    /\ PacketType(feed[1]) = "answer_piece"
    /\ PacketType(feed[2]) = "top_documents"
    /\ feed[3].kind = "badjson"
    /\ PacketType(feed[4]) = "answer_piece"
    /\ answer = <<"a", "b">>

\* This step consumed a line that is empty or does not parse as a JSON object.
IsMalformedStep ==
    /\ Len(feed') = Len(feed) + 1
    /\ feed'[Len(feed')].kind \in {"empty", "badjson", "scalar", "badutf8"}

\* C18 (as stated): a malformed line is absorbed: it changes nothing of the
\* accumulated state, produces no event, and the feed goes on being consumed.
C18_MalformedAbsorbed ==
    [][IsMalformedStep =>
          /\ pc' = "reading"
          /\ raised' = raised
          /\ events' = events
          /\ <<gen_answer, gen_documents, gen_citations, referenced_doc_ids>>' =
                 <<gen_answer, gen_documents, gen_citations, referenced_doc_ids>>
          /\ <<answer, documents, citations_bound, citation_details, error>>' =
                 <<answer, documents, citations_bound, citation_details, error>>]_vars

\* C19 (as stated): a transport failure in any client operation leaves the call
\* as an OnyxSearchException, never as a raw transport exception.
C19_TransportFailureWrapped ==
    raised.cause = "transport" => raised.type = "OnyxSearchException"

(***************************************************************************)
(* Claims C21 - C30                                                        *)
(***************************************************************************)

\* The whole effect of one recognized packet u on an assembler state st.
ApplyPacket(st, u) ==
    IF PacketType(u) = "answer_piece"
    THEN [st EXCEPT !.answer = st.answer \o u.answer_piece]
    ELSE IF PacketType(u) = "top_documents"
    THEN [st EXCEPT !.documents = u.top_documents,
                    !.citations = RegisterDocuments(st.citations, u.top_documents)]
    ELSE IF PacketType(u) = "citations"
    THEN LET r == ApplyCitations(st.citations, st.referenced, u.citations)
         IN [st EXCEPT !.citations = r.citations, !.referenced = r.referenced]
    ELSE st

\* The assembler state a feed made of the packets f alone produces.
RECURSIVE Replay(_, _)
Replay(st, f) == IF f = <<>> THEN st ELSE Replay(ApplyPacket(st, Head(f)), Tail(f))

\* C21: whenever the generator is suspended, stopped or done, after its k-th
\* event, its state is the state a feed of the first k recognized packets alone
\* produces, and the k-th event already shows the whole packet: every document
\* of a batch, the registry after every pair of a citation event.
C21_CancellationAtBoundary ==
    LET packets == Recognized(feed)
        r == Replay(FreshState, packets)
    IN /\ Len(events) = Len(packets)
       /\ gen_answer = r.answer
       /\ gen_documents = r.documents
       /\ gen_citations = r.citations
       /\ referenced_doc_ids = r.referenced
       /\ \A k \in DOMAIN events :
              /\ events[k].type = "documents" => events[k].content = packets[k].top_documents
              /\ events[k].type = "citations" =>
                     events[k].content = Replay(FreshState, SubSeq(packets, 1, k)).citations

\* C21 witness: the consumer stopped right after a citation event with several
\* pairs that followed a batch of two documents, with an ignored line between.
C21_Witness ==
    /\ pc = "cancelled"
    /\ Len(feed) = 3
    /\ Len(events) = 2
    /\ Len(gen_citations) = 2
    /\ \A i \in DOMAIN gen_citations : gen_citations[i].val.citation_text # NoKey

(***************************************************************************)
(* Two calls of search_with_answer in flight at once                       *)
(***************************************************************************)

\* Longest feed of each of the two concurrent calls.
MaxPerFeed == 2

\* The lines the two concurrent feeds are drawn from.
ConcurrentUnits ==
    { EmptyUnit,
      Packet({"answer_piece"}, <<"a">>, <<>>, <<>>, ""),
      Packet({"top_documents"}, <<>>, <<D1, D2>>, <<>>, ""),
      Packet({"top_documents"}, <<>>, <<D1b, D3>>, <<>>, ""),
      Packet({"citations"}, <<>>, <<>>, << <<"d2", "c2">>, <<"d1", "c3">>, <<"d3">> >>, ""),
      Packet({"error"}, <<>>, <<>>, <<>>, "boom") }

\* The event the generator yields for packet u, st being its locals at the yield.
YieldedEvent(st, u) ==
    [type |-> EventType(PacketType(u)),
     content |-> IF PacketType(u) = "answer_piece" THEN u.answer_piece
                 ELSE IF PacketType(u) = "top_documents" THEN u.top_documents
                 ELSE IF PacketType(u) = "citations" THEN st.citations
                 ELSE u.error]

\* One iteration of the for loop of a generator frame fr on line u.
ConsumeLine(fr, u) ==
    LET st == ApplyPacket(fr.st, u)
    IN [fr EXCEPT !.feed = Append(@, u),
                  !.st = st,
                  !.events = IF PacketType(u) = "none" THEN @
                             ELSE Append(@, YieldedEvent(st, u))]

\* The registry kept as an attribute of the client object instead of a local:
\* every call on the same client sees the registry the last packet left.
ConcurrentLine_RegistryOnClient(r, u) ==
    /\ frames[r].pc = "reading"
    /\ Len(frames[r].feed) < MaxPerFeed
    /\ frames' = [q \in Runs |->
                     IF q = r THEN ConsumeLine(frames[r], u)
                     ELSE IF client_of[q] = client_of[r]
                     THEN [frames[q] EXCEPT !.st.citations = ConsumeLine(frames[r], u).st.citations]
                     ELSE frames[q]]
    /\ UNCHANGED client_of
    /\ UNCHANGED feedVars
    /\ UNCHANGED searchVars

\* Call r reads the next line of its own response: the locals of its own
\* generator frame change, self is only read (base_url, headers).
ConcurrentLine(r, u) ==
    /\ frames[r].pc = "reading"
    /\ Len(frames[r].feed) < MaxPerFeed
    /\ frames' = [frames EXCEPT ![r] = ConsumeLine(frames[r], u)]
    /\ UNCHANGED client_of
    /\ UNCHANGED feedVars
    /\ UNCHANGED searchVars

\* The response of call r is exhausted.
ConcurrentEnd(r) ==
    /\ frames[r].pc = "reading"
    /\ frames' = [frames EXCEPT ![r].pc = "returned"]
    /\ UNCHANGED client_of
    /\ UNCHANGED feedVars
    /\ UNCHANGED searchVars

\* Both calls have their responses; they are on one client object or on two.
ConcurrentInit ==
    /\ frames = [r \in Runs |-> FreshFrame]
    /\ client_of \in {[r \in Runs |-> "c1"], [r \in Runs |-> IF r = 1 THEN "c1" ELSE "c2"]}

ConcurrentSpecInit == FeedInit /\ NoSearch /\ ConcurrentInit

ConcurrentNext ==
    \/ \E r \in Runs, u \in ConcurrentUnits : ConcurrentLine(r, u)
    \/ \E r \in Runs : ConcurrentEnd(r)

ConcurrentSpec == ConcurrentSpecInit /\ [][ConcurrentNext]_vars

\* The events a call delivers for the packets f when it runs alone.
SoloEvents(f) ==
    [k \in DOMAIN f |-> YieldedEvent(Replay(FreshState, SubSeq(f, 1, k)), f[k])]

\* Call r is where a call running alone on the same lines is.
AsAlone(r) ==
    LET packets == Recognized(frames[r].feed)
    IN /\ frames[r].st = Replay(FreshState, packets)
       /\ frames[r].events = SoloEvents(packets)

\* C22: in every interleaving of two calls, on one client object or on two, each
\* call has delivered the events and holds the answer, documents, registry and
\* referenced ids of a call that reads the same lines alone, and a step of one
\* call leaves the other call's state as it was.
C22_PerFeedIsolation ==
    /\ [](\A r \in Runs : AsAlone(r))
    /\ [][\A r, q \in Runs :
             (r # q /\ frames'[r] # frames[r]) => frames'[q] = frames[q]]_vars

\* C22 witness: two calls on the same client object, both finished, whose feeds
\* registered the same document id with different fields.
C22_Witness ==
    /\ client_of[1] = client_of[2]
    /\ \A r \in Runs : frames[r].pc = "returned"
    /\ DictHas(frames[1].st.citations, "d1") /\ DictHas(frames[2].st.citations, "d1")
    /\ DictGet(frames[1].st.citations, "d1").citation_text = "c3"
    /\ DictGet(frames[2].st.citations, "d1").title = "T1b"
    /\ DictGet(frames[2].st.citations, "d1").citation_text = NoKey

\* The identity a document object carries: its id, or else its document_id.
Identity(doc) ==
    IF Truthy(Get(doc, "id", None)) THEN doc.id ELSE Get(doc, "document_id", None)

\* C23 (as stated): every document of a consumed batch that carries an identity,
\* in id or in document_id, has a registry entry under that identity.
C23_DocumentIdRegistered ==
    \A k \in DOMAIN feed :
        PacketType(feed[k]) = "top_documents" =>
            \A i \in DOMAIN feed[k].top_documents :
                Truthy(Identity(feed[k].top_documents[i])) =>
                    DictHas(gen_citations, Identity(feed[k].top_documents[i]))

\* What search_with_answer returns for a feed without any line.
EmptyFeedResult ==
    [answer |-> <<>>, documents |-> <<>>, citations |-> <<>>,
     citation_details |-> <<>>, error |-> None]

\* C24 (as stated): the result returned for a feed that produced packets differs
\* from the result returned for the empty feed.
C24_EmptyFeedDistinct ==
    (call = "search_with_answer" /\ pc = "returned" /\ Recognized(feed) # <<>>) =>
        Result # EmptyFeedResult

\* C25: a document search that got a success status and an empty body has raised
\* OnyxSearchException; a document search that returned a value had a body, so
\* an empty body is never handed to the caller as a result.
C25_EmptyBodyRaises ==
    call = "search" =>
        /\ response_text = "" =>
               (pc = "raised" /\ raised = [type |-> "OnyxSearchException", cause |-> "empty_body"])
        /\ pc = "returned" => response_text \in SearchBodies

\* C25 witness: the document search met an empty body.
C25_Witness == call = "search" /\ response_text = "" /\ pc = "raised"

\* The four keys in the order in which the packet is tested for them.
KeyOrder == <<"answer_piece", "top_documents", "citations", "error">>

\* The first of the four keys that packet u carries, "none" if it carries none.
FirstKey(u) ==
    LET present == {i \in DOMAIN KeyOrder : KeyOrder[i] \in u.keys}
    IN IF present = {} THEN "none"
       ELSE KeyOrder[CHOOSE i \in present : \A j \in present : i <= j]

\* What consuming the parsed packet u did, t being the kind it is handled as.
HandledAs(u, t) ==
    /\ t = "none" =>
           /\ events' = events
           /\ <<gen_answer, gen_documents, gen_citations, referenced_doc_ids>>' =
                  <<gen_answer, gen_documents, gen_citations, referenced_doc_ids>>
           /\ <<answer, documents, citations_bound, citation_details, error>>' =
                  <<answer, documents, citations_bound, citation_details, error>>
    /\ t # "none" =>
           /\ Len(events') = Len(events) + 1
           /\ SubSeq(events', 1, Len(events)) = events
           /\ events'[Len(events')].type = EventType(t)
    /\ t = "answer_piece" =>
           /\ answer' = answer \o u.answer_piece
           /\ gen_answer' = gen_answer \o u.answer_piece
    /\ t # "answer_piece" => (answer' = answer /\ gen_answer' = gen_answer)
    /\ t = "top_documents" =>
           (documents' = u.top_documents /\ gen_documents' = u.top_documents)
    /\ t # "top_documents" =>
           /\ documents' = documents
           /\ gen_documents' = gen_documents
           /\ DictKeys(gen_citations') = DictKeys(gen_citations)
    /\ t = "citations" =>
           referenced_doc_ids' = referenced_doc_ids \cup CitedIds(<<[u EXCEPT !.keys = {"citations"}]>>)
    /\ t # "citations" =>
           /\ referenced_doc_ids' = referenced_doc_ids
           /\ citations_bound' = citations_bound
           /\ citation_details' = citation_details
           /\ \A id \in DictKeys(gen_citations) :
                  t # "top_documents" => DictGet(gen_citations', id) = DictGet(gen_citations, id)
    /\ t = "error" => error' = u.error
    /\ t # "error" => error' = error

\* C26: a step that consumes a parsed packet handles it as the kind of the first
\* key it carries in the order answer_piece, top_documents, citations, error,
\* and as that kind only: one event of that kind, the effects of that kind and
\* of no other; a packet with none of the keys changes nothing and delivers no event.
C26_FirstMatchingKeyWins ==
    [][(Len(feed') = Len(feed) + 1 /\ feed'[Len(feed')].kind = "packet") =>
          HandledAs(feed'[Len(feed')], FirstKey(feed'[Len(feed')]))]_vars

\* C26 witness: a packet with answer_piece and error, a packet with
\* top_documents, citations and error, and a packet with none of the keys were
\* consumed: the text was appended, the batch stored, nothing cited, no error.
C26_Witness ==
    /\ pc = "returned"
    /\ \E i, j, k \in DOMAIN feed :
           /\ feed[i].keys = {"answer_piece", "error"}
           /\ feed[j].keys = {"top_documents", "citations", "error"}
           /\ feed[k].kind = "packet" /\ feed[k].keys = {}
    /\ Len(feed) = 3
    /\ Len(events) = 2
    /\ answer = <<"b">>
    /\ documents = <<D2>>
    /\ referenced_doc_ids = {}
    /\ error = None

\* C27: a step that consumes an AnswerPiece packet appends its text to the
\* answer and leaves the documents, the registry with every field of every
\* entry, the referenced ids, the citation details and the error as they were,
\* in the generator and in search_with_answer.
C27_AnswerPieceFrame ==
    [][IsStep("answer_piece") =>
          /\ gen_answer' = gen_answer \o feed'[Len(feed')].answer_piece
          /\ answer' = answer \o feed'[Len(feed')].answer_piece
          /\ gen_documents' = gen_documents
          /\ documents' = documents
          /\ gen_citations' = gen_citations
          /\ citations' = citations
          /\ referenced_doc_ids' = referenced_doc_ids
          /\ citation_details' = citation_details
          /\ error' = error]_vars

\* C27 witness: an AnswerPiece with text came last, after a batch, a citation
\* event that set a citation_text, and an error.
C27_Witness ==
    /\ Len(feed) = 4
    /\ PacketType(feed[4]) = "answer_piece"
    /\ feed[4].answer_piece # <<>>
    /\ answer = feed[4].answer_piece
    /\ documents # <<>>
    /\ \E i \in DOMAIN citations : citations[i].val.citation_text # NoKey
    /\ referenced_doc_ids # {}
    /\ error \in {"boom", "bang"}

\* C28: a document search with dedupe_docs off, or with it on and no document
\* repeated, returns the converted list as it was ranked and, as llm_indices,
\* the positions of the relevant documents in it: nothing dropped, nothing mapped.
C28_NoMappingWithoutDrops ==
    (op = "document_search" /\ (~dedupe_docs \/ DroppedPositions(top_docs) = {})) =>
        /\ deduped_docs = top_docs
        /\ dropped_inds = {}
        /\ llm_indices = OriginalRelevant

\* C28 witness: dedupe_docs off, a list that repeats its first document, and the
\* repeated position among the relevant ones.
C28_Witness ==
    /\ op = "document_search"
    /\ ~dedupe_docs
    /\ Len(top_docs) = 3
    /\ top_docs[2] = top_docs[1]
    /\ llm_indices = {0, 1}

\* C29 (as stated): in the result of a completed feed citation_details has one
\* entry per entry of citations, in the same order, with the same title, link,
\* source, blurb and citation_text (an entry without a text reads as '').
C29_DetailsMirrorCitations ==
    (call = "search_with_answer" /\ pc = "returned") =>
        /\ Len(Result.citation_details) = Len(Result.citations)
        /\ \A i \in DOMAIN Result.citation_details :
               i \in DOMAIN Result.citations =>
                   LET detail == Result.citation_details[i]
                       entry == Result.citations[i].val
                   IN /\ detail.title = entry.title
                      /\ detail.link = entry.link
                      /\ detail.source = entry.source
                      /\ detail.blurb = entry.blurb
                      /\ detail.citation_text =
                             (IF entry.citation_text = NoKey THEN "" ELSE entry.citation_text)

\* C30: the returned documents are the list of the last DocumentBatch of the
\* feed, empty if there was none, while the registry, in the generator and in
\* the returned citations once a citation event bound them, has an entry for
\* every document with an id of every batch consumed.
C30_LastBatchDocuments ==
    /\ documents = LastDocuments(feed)
    /\ gen_documents = LastDocuments(feed)
    /\ Result.documents = LastDocuments(feed)
    /\ \A k \in DOMAIN feed :
           PacketType(feed[k]) = "top_documents" =>
               \A i \in DOMAIN feed[k].top_documents :
                   Truthy(Get(feed[k].top_documents[i], "id", None)) =>
                       /\ DictHas(gen_citations, feed[k].top_documents[i].id)
                       /\ citations_bound => DictHas(Result.citations, feed[k].top_documents[i].id)

\* C30 witness: two batches with different documents, then a citation event:
\* the documents are those of the second batch, the registry has both ids.
C30_Witness ==
    /\ pc = "returned"
    /\ Len(feed) = 3
    /\ feed[1].top_documents = <<D1b, D3>>
    /\ feed[2].top_documents = <<D2>>
    /\ PacketType(feed[3]) = "citations"
    /\ Result.documents = <<D2>>
    /\ DictKeys(Result.citations) = {"d1", "d2"}

====
